---- MODULE Spec2Model ----
(***************************************************************************)
(* vscode-mjml: the Preview controller (one webview panel, re-rendered on  *)
(* editor events), the export command and the content pipeline they share, *)
(* Helper.fixLinks on the characters of a text, and the legacy             *)
(* PreviewManager with one MJMLView per document.                          *)
(*                                                                         *)
(* Every event handler runs to completion before the next one starts (one  *)
(* JavaScript thread).  A render suspends only where the templating        *)
(* pre-pass awaits the `import()` of a helper module: other handlers run   *)
(* in between and suspended renders resume in any order.  Every other      *)
(* await resumes in a microtask, before any other handler runs.            *)
(***************************************************************************)
EXTENDS Naturals, Sequences, FiniteSets, Bags

\* ---------------------------------------------------------------- bounds
\* Renders that may be suspended in `await this.getContent(document)` at once.
MaxInFlight == 2

\* The longest text given to Helper.fixLinks, in characters.
MaxTextLen == 4

\* How many times a document is opened: each opening makes a new
\* TextDocument object with a new Uri object.
MaxGen == 2

\* ------------------------------------------------------------- documents
\* Documents: two MJML files in different folders, a plain text file, and the
\* document of the preview scheme that the legacy preview shows.
AllDocs == {"a", "b", "c", "p"}

\* The documents the editor opens, closes, edits and saves.
Docs == {"a", "b", "c"}

None == "none"

languageId(d) == IF d = "c" THEN "plaintext" ELSE "mjml"

scheme(d) == IF d = "p" THEN "mjml-preview" ELSE "file"

\* document.fileName / document.uri.fsPath: the directory and the last path
\* component, which is a sequence of parts separated by dots.
fileName(d) ==
    CASE d = "a" -> [dir |-> "/w", name |-> <<"a", "mjml">>]
      [] d = "b" -> [dir |-> "/x", name |-> <<"b", "mjml">>]
      [] d = "c" -> [dir |-> "/w", name |-> <<"c", "txt">>]
      [] d = "p" -> [dir |-> "/mjml-preview/sidebyside", name |-> <<"">>]

\* path.basename: the last path component, extension included.
basename(f) == f.name

\* path.dirname
dirname(f) == f.dir

\* isMJMLFile without its language test
isMJMLFile_AnyLanguage(d) == scheme(d) # "mjml-preview"

\* Helper.isMJMLFile
isMJMLFile(d) == languageId(d) = "mjml" /\ scheme(d) # "mjml-preview"

VARIABLES
    textDocuments,      \* workspace.textDocuments: the open documents
    activeTextEditor,   \* window.activeTextEditor's document, or None
    openedDocuments,    \* Preview.openedDocuments
    previewOpen,        \* Preview.previewOpen
    webview,            \* Preview.webview: a panel id, or 0 for undefined
    panels,             \* live panels (created, not disposed): id -> title, html
    inflight,           \* bag of displayWebView calls suspended at their await
    shown,              \* the messages the last step showed the user
    exportPc,           \* where the export command is: idle, compiling
                        \* (suspended at import), prompt, writing or done
    job,                \* what the export in progress holds
    written,            \* the file the last step wrote, or None
    newest,             \* history: the render started last, while suspended
    latest,             \* history: the html the render started last computed
    overlap,            \* history: two renders were suspended at once
    links,              \* a text given to Helper.fixLinks, and what it returned
    IDMap,              \* legacy PreviewManager.IDMap.map, in insertion order
    fileMap,            \* legacy PreviewManager.fileMap: id -> MJMLView
    registrations,      \* legacy: content providers registered and not disposed
    subscriptions,      \* legacy: event handlers pushed to context.subscriptions
    fired,              \* legacy: the views whose provider fired in the last step
    generation,         \* how many times each document has been opened
    invoked             \* history: the URIs the legacy command was invoked on

vars == <<textDocuments, activeTextEditor, openedDocuments, previewOpen,
          webview, panels, inflight, shown, exportPc, job, written,
          newest, latest, overlap, links, IDMap, fileMap, registrations,
          subscriptions, fired, generation, invoked>>

envVars == <<textDocuments, activeTextEditor>>

previewVars == <<openedDocuments, previewOpen, webview, panels, inflight>>

exportVars == <<exportPc, job, written>>

histVars == <<newest, latest, overlap>>

linkVars == <<links>>

legacyVars == <<IDMap, fileMap, registrations, subscriptions, fired,
                generation, invoked>>

Undefined == 0

\* ------------------------------------------------------ content pipeline
NoEditorMessage == "Active editor doesn't show a MJML document."

\* Folders that hold a preview.json naming a helpers module.
HelperFolders == {"/w"}

\* document.getText(): the document's buffer, named by its document.
getText(d) == [textOf |-> d]

\* Helper.compileHtml awaits import() exactly when the folder of the active
\* editor holds a preview.json with helpers.
Suspends(active) == dirname(fileName(active)) \in HelperFolders

\* Helper.compileHtml: the templating pre-pass.  Without a preview.json
\* beside the active editor's file the text is returned as it is; with one,
\* the text is compiled as a template with its data, unless JSON.parse,
\* import() or ejs throws (`throws`).
compileHtml(html, active, throws) ==
    IF ~Suspends(active)
    THEN [threw |-> FALSE, value |-> [src |-> html, ejs |-> FALSE]]
    ELSE IF throws
    THEN [threw |-> TRUE, err |-> "SyntaxError"]
    ELSE [threw |-> FALSE, value |-> [src |-> html, ejs |-> TRUE]]

EmptyHtml == [empty |-> TRUE]

\* mjmlToHtml(mjml, minify, beautify, path, level): the external compiler's
\* result object; `compiles` is whether it yields any HTML for this input.
mjmlToHtml(mjml, minify, beautify, path, level, compiles) ==
    [html |-> IF compiles
              THEN [mjml |-> mjml, minify |-> minify, beautify |-> beautify,
                    links |-> "relative", bg |-> FALSE]
              ELSE EmptyHtml]

\* fixImages(html, path): relative asset links become absolute file URLs
\* under the document's directory.
fixImages(html, path) == [html EXCEPT !.links = dirname(path)]

\* Preview.setBackgroundColor: `color` is the previewBackgroundColor setting
\* being set, `head` whether /<.*head.*>/i matches the HTML.
setBackgroundColor(html, color, head) ==
    IF color /\ head THEN [html EXCEPT !.bg = TRUE] ELSE html

\* error without the <body> element
error_NoBody(e) == [raw |-> e]

\* Preview.error
error(e) == [body |-> e]

\* addDocument without its indexOf test
addDocument_Always(docs, f) == Append(docs, f)

\* Preview.addDocument
addDocument(docs, f) ==
    IF \E i \in 1 .. Len(docs) : docs[i] = f THEN docs ELSE Append(docs, f)

\* Preview.removeDocument
removeDocument(docs, f) == SelectSeq(docs, LAMBDA file : file # f)

\* What the environment decides for one run of the pipeline; an input that
\* the run does not get to read is fixed.
PipelineInputs ==
    {in \in [throws : BOOLEAN, compiles : BOOLEAN, color : BOOLEAN,
             head : BOOLEAN] :
        /\ in.throws => in.compiles
        /\ (in.throws \/ ~in.compiles) => in.color
        /\ (in.throws \/ ~in.compiles \/ ~in.color) => in.head}

\* Preview.getContent for a render `r`: the content returned and
\* openedDocuments afterwards.
getContent(r, in) ==
    LET pre == compileHtml(r.text, r.active, in.throws)
        html == mjmlToHtml(pre.value, FALSE, FALSE, fileName(r.document),
                           "skip", in.compiles).html
    IN  IF pre.threw
        THEN [content |-> error(pre.err), opened |-> openedDocuments]
        ELSE IF html # EmptyHtml
        THEN [content |-> setBackgroundColor(
                              fixImages(html, fileName(r.document)),
                              in.color, in.head),
              opened |-> addDocument(openedDocuments, fileName(r.document))]
        ELSE [content |-> error(NoEditorMessage), opened |-> openedDocuments]

\* ------------------------------------------------------------ the panel
\* `MJML Preview - ${basename(activeTextEditor.document.fileName)}`
Label(active) == <<"MJML Preview - ", basename(fileName(active))>>

\* window.createWebviewPanel: a fresh id
NewPanel == CHOOSE n \in 1 .. (Cardinality(DOMAIN panels) + 1) : n \notin DOMAIN panels

\* WebviewPanel.dispose with the onDidDispose callback of displayWebView:
\* the panel is gone, webview is cleared and previewOpen is false.
DisposePanel(id) ==
    /\ panels' = [i \in DOMAIN panels \ {id} |-> panels[i]]
    /\ webview' = Undefined
    /\ previewOpen' = FALSE

\* A call of displayWebView past its early returns: the document, the text
\* getContent reads, and the active editor captured for the label.
Render(document, active) ==
    [document |-> document, text |-> getText(document), active |-> active]

\* The renders that can be suspended.
Renders == {Render(d, e) : d \in {x \in Docs : isMJMLFile(x)},
                           e \in {x \in Docs : Suspends(x)}}

\* No export is in progress; no file was written.
NoJob == [none |-> TRUE]

NoFile == [nofile |-> TRUE]

\* The render started last is not suspended.
NotSuspended == [suspended |-> FALSE]

TypeOK ==
    /\ textDocuments \subseteq Docs
    /\ activeTextEditor \in textDocuments \cup {None}
    /\ previewOpen \in BOOLEAN
    /\ webview \in Nat
    /\ IsABag(inflight)
    /\ BagToSet(inflight) \subseteq Renders
    /\ BagCardinality(inflight) <= MaxInFlight

\* No text has been given to Helper.fixLinks.
NoLinks == [text |-> <<>>, replaced |-> <<>>, applied |-> FALSE]

\* The Preview controller and the export command after construction.
Constructed ==
    /\ openedDocuments = <<>>
    /\ previewOpen = FALSE
    /\ webview = Undefined
    /\ panels = [i \in {} |-> None]
    /\ inflight = EmptyBag
    /\ shown = <<>>
    /\ exportPc = "idle"
    /\ job = NoJob
    /\ written = NoFile
    /\ newest = NotSuspended
    /\ latest = NotSuspended
    /\ overlap = FALSE

\* The legacy PreviewManager after construction: no view yet.
LegacyConstructed ==
    /\ IDMap = <<>>
    /\ fileMap = [id \in {} |-> None]
    /\ registrations = 0
    /\ subscriptions = 0
    /\ fired = {}
    /\ generation = [d \in Docs |-> 0]
    /\ invoked = {}

Init ==
    /\ textDocuments = {}
    /\ activeTextEditor = None
    /\ Constructed
    /\ LegacyConstructed
    /\ links = NoLinks

\* ------------------------------------------------- the Preview controller
\* displayWebView without its test of this.webview
CreatesPanel_Always(w) == TRUE

\* if (!this.webview)
CreatesPanel(w) == w = Undefined

\* Preview.displayWebView after `await this.getContent(document)`: the
\* render `r` has its content, and creates the panel or updates it.  `of`
\* names the document whose render wrote the html.
Resume(r, in) ==
    LET got == getContent(r, in)
        panel == [title |-> Label(r.active), html |-> got.content,
                  of |-> r.document]
    IN  /\ openedDocuments' = got.opened
        /\ IF CreatesPanel(webview)
           THEN /\ webview' = NewPanel
                /\ panels' = [id \in DOMAIN panels \cup {NewPanel} |->
                                IF id = NewPanel THEN panel ELSE panels[id]]
           ELSE /\ webview' = webview
                /\ panels' = [panels EXCEPT ![webview] = panel]

\* displayWebView returning early for every document
Passes_Never(document, active) == FALSE

\* Whether displayWebView(document) passes its two early returns.
Passes(document, active) == isMJMLFile(document) /\ active # None

\* Preview.displayWebView(document) called by a handler while `active` is
\* the active editor: nothing for a document that is not previewable or
\* without an active editor; otherwise the render is suspended at import(),
\* or, with nothing to import, has resumed before the next handler runs.
displayWebView(document, active) ==
    IF ~Passes(document, active)
    THEN UNCHANGED <<openedDocuments, webview, panels, inflight>>
    ELSE IF Suspends(active)
    THEN /\ BagCardinality(inflight) < MaxInFlight
         /\ inflight' = inflight (+) SetToBag({Render(document, active)})
         /\ UNCHANGED <<openedDocuments, webview, panels>>
    ELSE /\ \E in \in PipelineInputs : Resume(Render(document, active), in)
         /\ inflight' = inflight

NoRender == UNCHANGED <<openedDocuments, webview, panels, inflight>>

\* commands.registerCommand("mjml.previewToSide", ...)
PreviewCommand ==
    IF activeTextEditor # None
    THEN /\ previewOpen' = TRUE
         /\ displayWebView(activeTextEditor, activeTextEditor)
         /\ shown' = <<>>
         /\ UNCHANGED envVars
    ELSE /\ shown' = <<NoEditorMessage>>
         /\ UNCHANGED <<envVars, previewVars>>

\* the open handler without its test of autoPreview
OpenGate_NoSetting(open, autoPreview) == open

\* document && this.previewOpen && getConfiguration("mjml").autoPreview
OpenGate(open, autoPreview) == open /\ autoPreview

\* workspace.onDidOpenTextDocument; `autoPreview` is the setting it reads.
DidOpenTextDocument(d, autoPreview) ==
    /\ d \notin textDocuments
    /\ textDocuments' = textDocuments \cup {d}
    /\ IF OpenGate(previewOpen, autoPreview)
       THEN displayWebView(d, activeTextEditor)
       ELSE NoRender
    /\ shown' = <<>>
    /\ UNCHANGED <<activeTextEditor, previewOpen>>

\* editor && this.previewOpen && getConfiguration("mjml").autoPreview
EditorGate(e, open, autoPreview) == e # None /\ open /\ autoPreview

\* window.onDidChangeActiveTextEditor; `e` is None when no editor is active.
DidChangeActiveTextEditor(e, autoPreview) ==
    /\ e \in textDocuments \cup {None}
    /\ e # activeTextEditor
    /\ activeTextEditor' = e
    /\ IF EditorGate(e, previewOpen, autoPreview)
       THEN displayWebView(e, e)
       ELSE NoRender
    /\ shown' = <<>>
    /\ UNCHANGED <<textDocuments, previewOpen>>

\* event && this.previewOpen && getConfiguration("mjml").updateWhenTyping
ChangeGate(open, updateWhenTyping) == open /\ updateWhenTyping

\* workspace.onDidChangeTextDocument
DidChangeTextDocument(d, updateWhenTyping) ==
    /\ d \in textDocuments
    /\ IF ChangeGate(previewOpen, updateWhenTyping)
       THEN displayWebView(d, activeTextEditor)
       ELSE NoRender
    /\ shown' = <<>>
    /\ UNCHANGED <<envVars, previewOpen>>

\* document && this.previewOpen
SaveGate(open) == open

\* workspace.onDidSaveTextDocument
DidSaveTextDocument(d) ==
    /\ d \in textDocuments
    /\ IF SaveGate(previewOpen)
       THEN displayWebView(d, activeTextEditor)
       ELSE NoRender
    /\ shown' = <<>>
    /\ UNCHANGED <<envVars, previewOpen>>

\* Preview.dispose
dispose ==
    IF webview # Undefined
    THEN DisposePanel(webview)
    ELSE UNCHANGED <<webview, panels, previewOpen>>

\* the close handler without its test of autoClosePreview
AutoCloses_IgnoreSetting(docs, autoClosePreview) == Len(docs) = 0

\* this.openedDocuments.length === 0 && getConfiguration("mjml").autoClosePreview
AutoCloses(docs, autoClosePreview) == Len(docs) = 0 /\ autoClosePreview

\* document && this.previewOpen && this.webview
CloseGate(open, w) == open /\ w # Undefined

\* workspace.onDidCloseTextDocument; the editor showing a document is gone
\* before the document is closed.
DidCloseTextDocument(d, autoClosePreview) ==
    /\ d \in textDocuments
    /\ d # activeTextEditor
    /\ textDocuments' = textDocuments \ {d}
    /\ IF CloseGate(previewOpen, webview)
       THEN /\ openedDocuments' = removeDocument(openedDocuments, fileName(d))
            /\ IF AutoCloses(openedDocuments', autoClosePreview)
               THEN dispose
               ELSE UNCHANGED <<webview, panels, previewOpen>>
       ELSE UNCHANGED <<openedDocuments, webview, panels, previewOpen>>
    /\ shown' = <<>>
    /\ UNCHANGED <<activeTextEditor, inflight>>

\* The user closes the panel: the host disposes it and the onDidDispose
\* callback runs.
PanelClosed(id) ==
    /\ id \in DOMAIN panels
    /\ DisposePanel(id)
    /\ shown' = <<>>
    /\ UNCHANGED <<envVars, openedDocuments, inflight>>

\* Preview.dispose called by the extension host
PreviewDispose ==
    /\ webview # Undefined
    /\ dispose
    /\ shown' = <<>>
    /\ UNCHANGED <<envVars, openedDocuments, inflight>>

\* A suspended render resumes: import() has settled.
CompleteRender(r, in) ==
    /\ BagIn(r, inflight)
    /\ Resume(r, in)
    /\ inflight' = inflight (-) SetToBag({r})
    /\ shown' = <<>>
    /\ UNCHANGED <<envVars, previewOpen>>

\* The export command is not running, and nothing is observed.
PreviewOnly == UNCHANGED <<exportVars, histVars, linkVars, legacyVars>>

Next ==
    \/ PreviewCommand /\ PreviewOnly
    \/ \E d \in Docs, autoPreview \in BOOLEAN :
          DidOpenTextDocument(d, autoPreview) /\ PreviewOnly
    \/ \E e \in Docs \cup {None}, autoPreview \in BOOLEAN :
          DidChangeActiveTextEditor(e, autoPreview) /\ PreviewOnly
    \/ \E d \in Docs, updateWhenTyping \in BOOLEAN :
          DidChangeTextDocument(d, updateWhenTyping) /\ PreviewOnly
    \/ \E d \in Docs : DidSaveTextDocument(d) /\ PreviewOnly
    \/ \E d \in Docs, autoClosePreview \in BOOLEAN :
          DidCloseTextDocument(d, autoClosePreview) /\ PreviewOnly
    \/ \E id \in DOMAIN panels : PanelClosed(id) /\ PreviewOnly
    \/ PreviewDispose /\ PreviewOnly
    \/ \E r \in Renders, in \in PipelineInputs :
          CompleteRender(r, in) /\ PreviewOnly

Spec == Init /\ [][Next]_vars

\* ------------------------------------------------------ history of renders
\* A handler that called displayWebView(document) while `active` was the
\* active editor, if `gate` let it: the render it started is the newest.
ObserveStart(gate, document, active) ==
    IF gate /\ Passes(document, active)
    THEN IF Suspends(active)
         THEN /\ newest' = Render(document, active)
              /\ latest' = newest'
              /\ overlap' = (inflight # EmptyBag)
         ELSE /\ newest' = NotSuspended
              /\ latest' = panels'[webview'].html
              /\ overlap' = (overlap /\ inflight # EmptyBag)
    ELSE UNCHANGED histVars

\* The render r resumed: it is the newest one if it is the render started
\* last and no equal, older one is suspended beside it.
ObserveComplete(r) ==
    LET last == newest = r /\ CopiesIn(r, inflight) = 1
    IN  /\ newest' = IF last THEN NotSuspended ELSE newest
        /\ latest' = IF last THEN panels'[webview'].html ELSE latest
        /\ overlap' = overlap

RaceNext ==
    \/ /\ PreviewCommand
       /\ ObserveStart(activeTextEditor # None, activeTextEditor, activeTextEditor)
       /\ UNCHANGED <<exportVars, linkVars, legacyVars>>
    \/ \E d \in Docs, autoPreview \in BOOLEAN :
          /\ DidOpenTextDocument(d, autoPreview)
          /\ ObserveStart(OpenGate(previewOpen, autoPreview), d, activeTextEditor)
          /\ UNCHANGED <<exportVars, linkVars, legacyVars>>
    \/ \E e \in Docs \cup {None}, autoPreview \in BOOLEAN :
          /\ DidChangeActiveTextEditor(e, autoPreview)
          /\ ObserveStart(EditorGate(e, previewOpen, autoPreview), e, e)
          /\ UNCHANGED <<exportVars, linkVars, legacyVars>>
    \/ \E d \in Docs, updateWhenTyping \in BOOLEAN :
          /\ DidChangeTextDocument(d, updateWhenTyping)
          /\ ObserveStart(ChangeGate(previewOpen, updateWhenTyping), d,
                          activeTextEditor)
          /\ UNCHANGED <<exportVars, linkVars, legacyVars>>
    \/ \E d \in Docs :
          /\ DidSaveTextDocument(d)
          /\ ObserveStart(SaveGate(previewOpen), d, activeTextEditor)
          /\ UNCHANGED <<exportVars, linkVars, legacyVars>>
    \/ \E d \in Docs, autoClosePreview \in BOOLEAN :
          DidCloseTextDocument(d, autoClosePreview) /\ PreviewOnly
    \/ \E id \in DOMAIN panels : PanelClosed(id) /\ PreviewOnly
    \/ PreviewDispose /\ PreviewOnly
    \/ \E r \in Renders, in \in PipelineInputs :
          /\ CompleteRender(r, in)
          /\ ObserveComplete(r)
          /\ UNCHANGED <<exportVars, linkVars, legacyVars>>

\* The Preview controller with the order of its renders observed.
RaceSpec == Init /\ [][RaceNext]_vars

\* ------------------------------------------------------ the export command
NotMjmlMessage == "This is not a MJML document!"

WriteFailedMessage == "Something went wrong."

\* `MJMLError: Failed to parse file ${path.basename(...)}`
ParseFailedMessage(active) ==
    <<"MJMLError: Failed to parse file ", basename(fileName(active))>>

\* `File saved as ${fileName}.html`
SavedMessage(name) == <<"File saved as ", name, ".html">>

\* An optional argument: {} when it is omitted, {v} when it is v.
Omitted == {}

\* the setting taken whatever the argument is
ArgOr_Setting(arg, setting) == setting

\* arg != undefined ? arg : setting
ArgOr(arg, setting) == IF arg # Omitted THEN CHOOSE v \in arg : TRUE ELSE setting

\* replace(/\.[^\.]+$/, "") leaving the name as it is
stripExtension_Keep(name) == name

\* s.replace(/\.[^\.]+$/, ""): the last part goes, with its dot, when it is
\* not empty and not the only one.
stripExtension(name) ==
    IF Len(name) >= 2 /\ name[Len(name)] # ""
    THEN SubSeq(name, 1, Len(name) - 1)
    ELSE name

\* path.resolve(fsPath, `../${fileName}.html`)
resolveHtml(f, name) == [dir |-> dirname(f), name |-> Append(name, "html")]

\* Helper.mjml2html: the compiler's HTML, or nothing when it yields none or
\* throws, as it does for the missing document of `active` = None.
mjml2html(mjml, minify, beautify, active, compiles) ==
    IF active # None /\ compiles
    THEN [mjml |-> mjml, minify |-> minify, beautify |-> beautify,
          links |-> "relative", filePath |-> fileName(active)]
    ELSE EmptyHtml

\* Helper.fixLinks: relative links become file URLs under the directory of
\* the active document.
fixLinks(html, active) == [html EXCEPT !.links = dirname(fileName(active))]

\* renderMJML's test without its look at the content
HasContent_Always(content) == TRUE

\* if (content)
HasContent(content) == content # EmptyHtml

\* What the user types into the input box: nothing (the box is dismissed),
\* the empty string, or a name.
Cancelled == <<>>

PromptInputs ==
    {Cancelled, <<"">>, <<"out">>, <<"out", "html">>, <<"a", "b", "htm">>,
     <<"", "html">>, <<"out", "">>}

\* What the environment decides for one export.
ExportInputs ==
    {in \in [throws : BOOLEAN, compiles : BOOLEAN, minifyHtmlOutput : BOOLEAN,
             beautifyHtmlOutput : BOOLEAN] :
        /\ in.throws => in.compiles
        /\ (in.throws \/ ~in.compiles) =>
              (in.minifyHtmlOutput /\ in.beautifyHtmlOutput)}

\* Helper.renderMJML from `await this.compileHtml(...)` to `if (content)`:
\* the pre-pass ran while `active` was the active editor; the compiler runs
\* with the minify and beautify arguments, or the settings where they are
\* omitted, and the links are fixed for a fixLinks argument that is true.
renderedContent(text, active, fixLinksArg, minifyArg, beautifyArg, in) ==
    LET pre == compileHtml(text, active, in.throws)
        compiled == mjml2html(pre.value, ArgOr(minifyArg, in.minifyHtmlOutput),
                              ArgOr(beautifyArg, in.beautifyHtmlOutput),
                              activeTextEditor, in.compiles)
    IN  IF HasContent(compiled) /\ ArgOr(fixLinksArg, FALSE)
        THEN fixLinks(compiled, activeTextEditor)
        ELSE compiled

\* Helper.renderMJML after `await this.compileHtml(...)`, called by
\* ExportHTML.export with its callback only: the HTML goes to the callback,
\* which opens the input box; without HTML the error message is shown.  A
\* pre-pass that threw, or a missing active editor where its document is
\* read, rejects the promise and nothing more happens.
renderMJML(text, active, fixLinksArg, minifyArg, beautifyArg, in) ==
    LET pre == compileHtml(text, active, in.throws)
        content == renderedContent(text, active, fixLinksArg, minifyArg,
                                   beautifyArg, in)
    IN  IF pre.threw
        THEN exportPc' = "done" /\ job' = NoJob /\ shown' = <<>>
        ELSE IF HasContent(content)
        THEN /\ exportPc' = "prompt"
             /\ job' = [content |-> content,
                        defaultFileName |->
                            stripExtension(basename(fileName(activeTextEditor)))]
             /\ shown' = <<>>
        ELSE /\ exportPc' = "done"
             /\ job' = NoJob
             /\ shown' = IF activeTextEditor = None
                         THEN <<>>
                         ELSE <<ParseFailedMessage(activeTextEditor)>>

\* PreviewContentProvider.renderMJML of the legacy preview, for the view's
\* document: compiled with minify and beautify off, its links fixed; the
\* placeholder when the pre-pass throws (as it does without an active
\* editor) or the compiler yields nothing.
PreviewContentProvider_renderMJML(document, in) ==
    IF activeTextEditor = None
    THEN error("TypeError")
    ELSE LET pre == compileHtml(getText(document), activeTextEditor, in.throws)
             html == mjml2html(pre.value, FALSE, FALSE, activeTextEditor,
                               in.compiles)
         IN  IF pre.threw
             THEN error(pre.err)
             ELSE IF HasContent(html)
             THEN fixLinks(html, activeTextEditor)
             ELSE error(NoEditorMessage)

\* The mjml.exportHTML command: ExportHTML.export calls Helper.renderMJML,
\* which warns about a document that is not MJML, and otherwise runs the
\* pre-pass, suspended where it awaits import().
ExportCommand ==
    /\ exportPc \in {"idle", "done"}
    /\ written' = NoFile
    /\ IF activeTextEditor = None
       THEN exportPc' = "done" /\ job' = NoJob /\ shown' = <<>>
       ELSE IF ~isMJMLFile(activeTextEditor)
       THEN exportPc' = "done" /\ job' = NoJob /\ shown' = <<NotMjmlMessage>>
       ELSE IF Suspends(activeTextEditor)
       THEN /\ exportPc' = "compiling"
            /\ job' = [text |-> getText(activeTextEditor),
                       active |-> activeTextEditor]
            /\ shown' = <<>>
       ELSE \E in \in ExportInputs :
               renderMJML(getText(activeTextEditor), activeTextEditor,
                          Omitted, Omitted, Omitted, in)
    /\ UNCHANGED <<envVars, previewVars, histVars, linkVars, legacyVars>>

\* import() has settled and renderMJML goes on.
ExportCompiled(in) ==
    /\ exportPc = "compiling"
    /\ renderMJML(job.text, job.active, Omitted, Omitted, Omitted, in)
    /\ written' = NoFile
    /\ UNCHANGED <<envVars, previewVars, histVars, linkVars, legacyVars>>

\* fileName ? fileName.replace(/\.[^\.]+$/, "") : defaultFileName
ChosenName(input, defaultFileName) ==
    IF input # Cancelled /\ input # <<"">>
    THEN stripExtension(input)
    ELSE defaultFileName

\* The input box resolves: the callback of showInputBox(...).then names the
\* file beside the active document and starts fs.writeFile; without an
\* active editor it throws before it does.
ExportPromptResolved(input) ==
    /\ exportPc = "prompt"
    /\ IF activeTextEditor = None
       THEN exportPc' = "done" /\ job' = NoJob
       ELSE /\ exportPc' = "writing"
            /\ job' = [content |-> job.content,
                       fileName |-> ChosenName(input, job.defaultFileName),
                       file |-> resolveHtml(fileName(activeTextEditor),
                                            ChosenName(input, job.defaultFileName))]
    /\ shown' = <<>>
    /\ written' = NoFile
    /\ UNCHANGED <<envVars, previewVars, histVars, linkVars, legacyVars>>

\* fs.writeFile calls back, with an error or without.
ExportWritten(err) ==
    /\ exportPc = "writing"
    /\ exportPc' = "done"
    /\ job' = NoJob
    /\ IF err
       THEN shown' = <<WriteFailedMessage>> /\ written' = NoFile
       ELSE /\ shown' = <<SavedMessage(job.fileName)>>
            /\ written' = [file |-> job.file, content |-> job.content]
    /\ UNCHANGED <<envVars, previewVars, histVars, linkVars, legacyVars>>

\* The export command and the editor's events; the preview is not opened.
ExportNext ==
    \/ ExportCommand
    \/ \E in \in ExportInputs : ExportCompiled(in)
    \/ \E input \in PromptInputs : ExportPromptResolved(input)
    \/ \E err \in BOOLEAN : ExportWritten(err)
    \/ \E d \in Docs : DidOpenTextDocument(d, TRUE) /\ PreviewOnly
    \/ \E e \in Docs \cup {None} : DidChangeActiveTextEditor(e, TRUE) /\ PreviewOnly
    \/ \E d \in Docs : DidChangeTextDocument(d, TRUE) /\ PreviewOnly
    \/ \E d \in Docs : DidSaveTextDocument(d) /\ PreviewOnly
    \/ \E d \in Docs : DidCloseTextDocument(d, TRUE) /\ PreviewOnly

ExportSpec == Init /\ [][ExportNext]_vars

\* ------------------------------------------------------- Helper.fixLinks
\* The characters of a text.  The attribute prefixes `src=` (as `href=`) and
\* `url(`, and the word `http`, stand as one character each; "x" is any
\* character the pattern does not name.
Chars == {"src=", "url(", "\"", "'", ")", "#", "http", "\\", "x", "\n"}

Texts == UNION {[1 .. n -> Chars] : n \in 0 .. MaxTextLen}

\* (?:src|href|url)(?:=|\()
IsPrefix(c) == c \in {"src=", "url("}

\* ['"]
IsQuote(c) == c \in {"'", "\""}

\* ['"]|\)
IsClose(c) == c \in {"'", "\"", ")"}

\* what (?!http|\\|"|#) refuses
Refused(c) == c \in {"http", "\\", "\"", "#"}

\* `.` matches every character but a line terminator
Dot(c) == c # "\n"

\* ((?!http|\\|"|#).+?)(['"]|\)) tried at position s: the position of the
\* closing character that the lazy `.+?` stops at, or 0 without a match.
TargetEnd(text, s) ==
    IF s > Len(text)
    THEN 0
    ELSE IF Refused(text[s])
    THEN 0
    ELSE LET ends == {e \in s + 1 .. Len(text) :
                        IsClose(text[e]) /\ \A k \in s .. e - 1 : Dot(text[k])}
         IN  IF ends = {} THEN 0
             ELSE CHOOSE e \in ends : \A f \in ends : e <= f

NoMatch == [from |-> 0, to |-> 0]

\* The whole pattern tried at position i: where p2 starts and where p3 is.
\* (?:['"]|) takes a quote first and nothing when that does not match.
MatchAt(text, i) ==
    IF ~IsPrefix(text[i])
    THEN NoMatch
    ELSE LET quoted == IF i + 1 <= Len(text) THEN IsQuote(text[i + 1]) ELSE FALSE
             e1 == IF quoted THEN TargetEnd(text, i + 2) ELSE 0
             e0 == TargetEnd(text, i + 1)
         IN  IF e1 # 0 THEN [from |-> i + 2, to |-> e1]
             ELSE IF e0 # 0 THEN [from |-> i + 1, to |-> e0]
             ELSE NoMatch

\* fileUrl(path.join(dir, p2))
fileUrl(dir, p2) == <<"file://", dir, "/">> \o p2

\* text.replace(pattern with the g flag, ...) from position i on: a match is
\* replaced by p1, the file URL of p2 and p3, and the search goes on behind it.
RECURSIVE replaceFrom(_, _, _)
replaceFrom(text, i, dir) ==
    IF i > Len(text)
    THEN <<>>
    ELSE LET m == MatchAt(text, i)
         IN  IF m = NoMatch
             THEN <<text[i]>> \o replaceFrom(text, i + 1, dir)
             ELSE SubSeq(text, i, m.from - 1)
                  \o fileUrl(dir, SubSeq(text, m.from, m.to - 1))
                  \o <<text[m.to]>>
                  \o replaceFrom(text, m.to + 1, dir)

\* Helper.fixLinks(text), on the characters of the text.
fixLinksText(text, active) == replaceFrom(text, 1, dirname(fileName(active)))

\* An MJML document is open and active, and some text is to be fixed.
LinksInit ==
    /\ \E d \in {x \in Docs : isMJMLFile(x)} :
          textDocuments = {d} /\ activeTextEditor = d
    /\ Constructed
    /\ LegacyConstructed
    /\ links \in {[text |-> t, replaced |-> <<>>, applied |-> FALSE] :
                     t \in Texts}

\* Helper.fixLinks is called with the text.
FixLinks ==
    /\ ~links.applied
    /\ links' = [text |-> links.text,
                 replaced |-> fixLinksText(links.text, activeTextEditor),
                 applied |-> TRUE]
    /\ UNCHANGED <<envVars, previewVars, shown, exportVars, histVars,
                   legacyVars>>

LinksNext == FixLinks

LinksSpec == LinksInit /\ [][LinksNext]_vars

\* ------------------------------------------- the legacy PreviewManager
\* IDMap.createDocumentUri: JSON.stringify({ uri: uri }), the same string
\* for the same URI.
createDocumentUri(uri) == [json |-> uri]

\* MJMLView.createUri: the one preview URI, whatever the document is.
createUri(uri) == [uri |-> "p"]

\* The TextDocument object that is document d now.
DocumentObject(d) == [doc |-> d, gen |-> generation[d]]

\* IDMap.getByUri: the id under the first key, in insertion order, whose
\* array holds the string; undefined without one.
getByUri(uri) ==
    LET hits == {i \in 1 .. Len(IDMap) :
                    \E j \in 1 .. Len(IDMap[i].key) : IDMap[i].key[j] = uri}
    IN  IF hits = {} THEN Undefined
        ELSE IDMap[CHOOSE i \in hits : \A j \in hits : i <= j].id

\* hasUri finding no URI at all
hasUri_Never(uri) == FALSE

\* IDMap.hasUri
hasUri(uri) == getByUri(uri) # Undefined

\* IDMap.UUIDv4: a random id, taken to differ from the ids given out before.
UUIDv4 == CHOOSE n \in 1 .. (Len(IDMap) + 1) :
             \A i \in 1 .. Len(IDMap) : IDMap[i].id # n

\* new MJMLView(subscriptions, document)
MJMLView(document) == [document |-> document, previewUri |-> createUri(document.doc)]

\* PreviewContentProvider.update firing for every view
update_Always(view, active) == TRUE

\* PreviewContentProvider.update(uri) of a view: it fires onDidChange when
\* the URI is the side-by-side preview's and the active editor shows a file
\* of the same name as the view's document; without an active editor it
\* throws.
update(view, active) ==
    /\ view.previewUri = [uri |-> "p"]
    /\ active # None
    /\ fileName(active) = fileName(view.document.doc)

\* The views whose provider fires when every view's handler calls update.
Updated(active) == {id \in DOMAIN fileMap : update(fileMap[id], active)}

\* The legacy handlers leave the Preview controller and the export alone.
LegacyOnly == UNCHANGED <<previewVars, shown, exportVars, histVars, linkVars>>

\* A document is opened: a new TextDocument object.
DocumentOpened(d) ==
    /\ d \notin textDocuments
    /\ generation[d] < MaxGen
    /\ textDocuments' = textDocuments \cup {d}
    /\ generation' = [generation EXCEPT ![d] = @ + 1]
    /\ fired' = {}
    /\ UNCHANGED <<activeTextEditor, IDMap, fileMap, registrations,
                   subscriptions, invoked>>

\* A document that no editor shows is closed.
DocumentClosed(d) ==
    /\ d \in textDocuments
    /\ d # activeTextEditor
    /\ textDocuments' = textDocuments \ {d}
    /\ fired' = {}
    /\ UNCHANGED <<activeTextEditor, IDMap, fileMap, registrations,
                   subscriptions, generation, invoked>>

\* PreviewManager.previewCommand: a view for the active document, a new one
\* only if the IDMap has no id for the document's URI; without an active
\* editor it throws at once.
previewCommand ==
    /\ IF activeTextEditor = None
       THEN UNCHANGED <<IDMap, fileMap, registrations, subscriptions, invoked>>
       ELSE LET documentURI == createDocumentUri(activeTextEditor)
                mjmlPreview == MJMLView(DocumentObject(activeTextEditor))
                id == UUIDv4
            IN  /\ invoked' = invoked \cup {documentURI}
                /\ IF ~hasUri(documentURI)
                   THEN /\ IDMap' = Append(IDMap,
                               [key |-> <<documentURI, mjmlPreview.previewUri>>,
                                id |-> id])
                        /\ fileMap' = [i \in DOMAIN fileMap \cup {id} |->
                                         IF i = id THEN mjmlPreview
                                         ELSE fileMap[i]]
                        /\ registrations' = registrations + 1
                        /\ subscriptions' = subscriptions + 3
                   ELSE UNCHANGED <<IDMap, fileMap, registrations,
                                    subscriptions>>
    /\ fired' = {}
    /\ UNCHANGED <<envVars, generation>>

\* PreviewManager.dispose: every view disposes its registrations.
PreviewManager_dispose ==
    /\ registrations > 0
    /\ registrations' = 0
    /\ fired' = {}
    /\ UNCHANGED <<envVars, IDMap, fileMap, subscriptions, generation, invoked>>

\* workspace.onDidSaveTextDocument, the handler of every view
LegacyDidSaveTextDocument(d) ==
    /\ d \in textDocuments
    /\ fired' = IF isMJMLFile(d) THEN Updated(activeTextEditor) ELSE {}
    /\ UNCHANGED <<envVars, IDMap, fileMap, registrations, subscriptions,
                   generation, invoked>>

\* workspace.onDidChangeTextDocument, the handler of every view
LegacyDidChangeTextDocument(d, updateWhenTyping) ==
    /\ d \in textDocuments
    /\ fired' = IF updateWhenTyping /\ isMJMLFile(d)
                THEN Updated(activeTextEditor)
                ELSE {}
    /\ UNCHANGED <<envVars, IDMap, fileMap, registrations, subscriptions,
                   generation, invoked>>

\* window.onDidChangeActiveTextEditor, the handler of every view: it goes
\* on for the view whose document's Uri object is the editor's, and throws
\* for an undefined editor.
LegacyDidChangeActiveTextEditor(e) ==
    /\ e \in textDocuments \cup {None}
    /\ e # activeTextEditor
    /\ activeTextEditor' = e
    /\ fired' = IF e = None
                THEN {}
                ELSE {id \in Updated(e) :
                         /\ fileMap[id].document = DocumentObject(e)
                         /\ isMJMLFile(e)}
    /\ UNCHANGED <<textDocuments, IDMap, fileMap, registrations,
                   subscriptions, generation, invoked>>

LegacyNext ==
    \/ \E d \in Docs : DocumentOpened(d) /\ LegacyOnly
    \/ \E d \in Docs : DocumentClosed(d) /\ LegacyOnly
    \/ previewCommand /\ LegacyOnly
    \/ PreviewManager_dispose /\ LegacyOnly
    \/ \E d \in Docs : LegacyDidSaveTextDocument(d) /\ LegacyOnly
    \/ \E d \in Docs, updateWhenTyping \in BOOLEAN :
          LegacyDidChangeTextDocument(d, updateWhenTyping) /\ LegacyOnly
    \/ \E e \in Docs \cup {None} : LegacyDidChangeActiveTextEditor(e) /\ LegacyOnly

LegacySpec == Init /\ [][LegacyNext]_vars

\* ===================================================== the checked claims
Range(seq) == {seq[i] : i \in 1 .. Len(seq)}

MjmlDocs == {d \in Docs : languageId(d) = "mjml" /\ scheme(d) # "mjml-preview"}

OtherDocs == Docs \ MjmlDocs

PanelFrame == UNCHANGED <<panels, webview, openedDocuments, inflight>>

\* The panel Preview holds was written in this step by a render of document d.
Pushed(d) ==
    /\ webview' # Undefined
    /\ webview' \in DOMAIN panels'
    /\ panels'[webview'].of = d

\* This step started a render of d, or ran one to its end.
Rendered(d, active) ==
    \/ inflight' = inflight (+) SetToBag({Render(d, active)})
    \/ inflight' = inflight /\ Pushed(d)

\* The three results of the pipeline for document d rendered while `active`
\* is the active editor.
PlaceholderThrown == [body |-> "SyntaxError"]

PlaceholderEmpty == [body |-> "Active editor doesn't show a MJML document."]

FinalHtml(d, active, bg) ==
    [mjml |-> [src |-> [textOf |-> d],
               ejs |-> (fileName(active).dir \in HelperFolders)],
     minify |-> FALSE, beautify |-> FALSE, links |-> fileName(d).dir, bg |-> bg]

\* ---- C1
\* C1: at most one webview panel that was created and not yet disposed
\* exists in any reachable state, and it is the one Preview.webview holds.
C1_OnePanel ==
    /\ Cardinality(DOMAIN panels) <= 1
    /\ DOMAIN panels = IF webview = Undefined THEN {} ELSE {webview}

\* A panel is live while two more renders are still suspended.
C1_Witness ==
    /\ Cardinality(DOMAIN panels) = 1
    /\ BagCardinality(inflight) = 2

\* ---- C2
\* C2: a document-close event handled while the preview is open and a panel
\* exists removes the closed file name from the tracked set; the panel is
\* disposed (webview cleared, previewOpen false) if the set is then empty and
\* autoClosePreview is on, and is left as it was otherwise.
C2_AutoClose ==
    [][\A d \in Docs, autoClosePreview \in BOOLEAN :
         (DidCloseTextDocument(d, autoClosePreview)
            /\ previewOpen /\ webview # Undefined)
         => /\ Range(openedDocuments') = Range(openedDocuments) \ {fileName(d)}
            /\ IF openedDocuments' = <<>> /\ autoClosePreview
               THEN /\ webview \notin DOMAIN panels'
                    /\ webview' = Undefined
                    /\ previewOpen' = FALSE
               ELSE UNCHANGED <<panels, webview, previewOpen>>]_vars

\* The last tracked document can be closed while its panel is shown.
C2_Witness ==
    /\ previewOpen /\ webview # Undefined
    /\ openedDocuments = <<fileName("a")>>
    /\ ENABLED DidCloseTextDocument("a", TRUE)

\* ---- C3
\* C3 as stated: every command or event (close events included) whose
\* document is not previewable leaves the panel and the tracked set unchanged.
C3_Original ==
    [][/\ (PreviewCommand /\ activeTextEditor \in OtherDocs) => PanelFrame
       /\ \A d \in OtherDocs, on \in BOOLEAN :
            (\/ DidOpenTextDocument(d, on)
             \/ DidChangeActiveTextEditor(d, on)
             \/ DidChangeTextDocument(d, on)
             \/ DidSaveTextDocument(d)
             \/ DidCloseTextDocument(d, on)) => PanelFrame]_vars

\* C3 (amended): a document is previewable exactly when its language is mjml
\* and its scheme is not the preview scheme; the preview command and the
\* open, activate, change and save events on a document that is not
\* previewable start no render and leave panel and tracked set unchanged; a
\* close event on such a document starts no render, leaves the tracked set
\* unchanged and creates or rewrites no panel, though it may dispose one.
C3_NotPreviewable ==
    /\ [](\A d \in AllDocs :
            isMJMLFile(d) <=> (languageId(d) = "mjml" /\ scheme(d) # "mjml-preview"))
    /\ [][/\ (PreviewCommand /\ activeTextEditor \in OtherDocs) => PanelFrame
          /\ \A d \in OtherDocs, on \in BOOLEAN :
               /\ (\/ DidOpenTextDocument(d, on)
                   \/ DidChangeActiveTextEditor(d, on)
                   \/ DidChangeTextDocument(d, on)
                   \/ DidSaveTextDocument(d)) => PanelFrame
               /\ DidCloseTextDocument(d, on) =>
                    /\ UNCHANGED <<openedDocuments, inflight>>
                    /\ DOMAIN panels' \subseteq DOMAIN panels
                    /\ \A id \in DOMAIN panels' : panels'[id] = panels[id]]_vars

\* The plain text document can be saved while the preview shows a panel.
C3_Witness ==
    /\ previewOpen /\ webview # Undefined
    /\ activeTextEditor = "c"
    /\ ENABLED DidSaveTextDocument("c")

\* ---- C4
\* A render suspended at import() resumes: the promise settles.
FairSpec ==
    /\ Spec
    /\ \A d \in MjmlDocs :
         WF_vars(\E r \in Renders, in \in PipelineInputs :
                    r.document = d /\ CompleteRender(r, in) /\ PreviewOnly)

\* What the pipeline can return for document d.
IsOutput(html, d) ==
    \/ html \in {PlaceholderThrown, PlaceholderEmpty}
    \/ \E e \in Docs, bg \in BOOLEAN : html = FinalHtml(d, e, bg)

\* The panel exists and holds what a render of d put into it.
ShowsRenderOf(d) ==
    /\ webview # Undefined
    /\ panels[webview].of = d
    /\ IsOutput(panels[webview].html, d)

\* C4: with the preview open and an editor active, a save of a previewable
\* document, a change of it with updateWhenTyping on, an open or activation
\* of it with autoPreview on, and the preview command on it, each start a
\* render of it (or run one to its end); and every suspended render of a
\* document eventually leaves the panel existing with the pipeline's output
\* for that document as its html.
C4_EventReachesPanel ==
    /\ [][\A d \in MjmlDocs :
            /\ (activeTextEditor # None /\ previewOpen
                  /\ (\/ DidSaveTextDocument(d)
                      \/ DidChangeTextDocument(d, TRUE)
                      \/ DidOpenTextDocument(d, TRUE)))
               => /\ Rendered(d, activeTextEditor)
                  /\ inflight' = inflight => ShowsRenderOf(d)'
            /\ (\/ previewOpen /\ DidChangeActiveTextEditor(d, TRUE)
                \/ PreviewCommand /\ activeTextEditor = d)
               => /\ Rendered(d, d)
                  /\ inflight' = inflight => ShowsRenderOf(d)']_vars
    /\ \A d \in MjmlDocs :
         (\E r \in BagToSet(inflight) : r.document = d) ~> ShowsRenderOf(d)

\* The panel shows the compiled HTML of b, rendered while a was active and
\* so suspended before it was pushed.
C4_Witness ==
    /\ webview # Undefined
    /\ panels[webview] = [title |-> Label("a"), of |-> "b",
                          html |-> FinalHtml("b", "a", FALSE)]

\* ---- C5
\* C5: openedDocuments never holds a file name twice; a file name enters it
\* only in a step in which a render of that document put compiled HTML (not
\* an error placeholder) into the panel, and every such step leaves the name
\* in it; a file name leaves it only in a close event of that document,
\* handled while the preview is open and the panel exists.
C5_Tracked ==
    /\ [](\A i, j \in 1 .. Len(openedDocuments) :
            openedDocuments[i] = openedDocuments[j] => i = j)
    /\ [][\A d \in Docs :
            /\ (fileName(d) \in Range(openedDocuments') \ Range(openedDocuments))
               => (Pushed(d) /\ "mjml" \in DOMAIN panels'[webview'].html)
            /\ (Pushed(d) /\ "mjml" \in DOMAIN panels'[webview'].html
                  /\ (webview = Undefined \/ panels' # panels))
               => fileName(d) \in Range(openedDocuments')
            /\ (fileName(d) \in Range(openedDocuments) \ Range(openedDocuments'))
               => /\ previewOpen /\ webview # Undefined
                  /\ textDocuments' = textDocuments \ {d}
                  /\ d \in textDocuments]_vars

\* Both MJML documents are tracked.
C5_Witness == Len(openedDocuments) = 2

\* ---- C6
\* C6: a render never fails; when the templating pre-pass throws the panel's
\* html is <body>{error text}</body>, when the compiler yields no HTML it is
\* <body>Active editor doesn't show a MJML document.</body>, otherwise it is
\* the post-processed compiled HTML; every write of the panel's html is one
\* of the three.
C6_Pipeline ==
    [][/\ \A r \in Renders, in \in PipelineInputs :
            CompleteRender(r, in) =>
              /\ webview' \in DOMAIN panels'
              /\ panels'[webview'].html =
                   IF in.throws THEN PlaceholderThrown
                   ELSE IF ~in.compiles THEN PlaceholderEmpty
                   ELSE FinalHtml(r.document, r.active, in.color /\ in.head)
       /\ \A id \in DOMAIN panels' :
            (id \notin DOMAIN panels \/ panels'[id] # panels[id]) =>
              \/ panels'[id].html \in {PlaceholderThrown, PlaceholderEmpty}
              \/ \E e \in Docs, bg \in BOOLEAN :
                   panels'[id].html = FinalHtml(panels'[id].of, e, bg)]_vars

\* The panel shows the placeholder of a pre-pass that threw.
C6_Witness ==
    /\ webview # Undefined
    /\ panels[webview].html = PlaceholderThrown

\* ---- C7
\* C7: the input box opens only in a step that got compiled HTML from the
\* pipeline, a write starts only when the input box resolves, and a file is
\* written only by a write that was started; the command on a document that
\* is not MJML shows the warning and ends with no prompt and no write; a
\* compiler that yields no HTML makes the error message appear and the
\* export end with no prompt and no write; when the write ends, exactly one
\* message is shown, the success message if the file was written and the
\* failure message if not.
C7_ExportOrder ==
    [][/\ (exportPc' = "prompt" /\ exportPc # "prompt")
          => /\ exportPc \in {"idle", "done", "compiling"}
             /\ "mjml" \in DOMAIN job'.content
       /\ (exportPc' = "writing" /\ exportPc # "writing")
          => exportPc = "prompt" /\ job'.content = job.content
       /\ (written' # NoFile /\ written' # written)
          => exportPc = "writing" /\ written'.content = job.content
       /\ (ExportCommand /\ activeTextEditor \in (AllDocs \ MjmlDocs))
          => /\ shown' = <<"This is not a MJML document!">>
             /\ exportPc' = "done" /\ written' = NoFile
       /\ \A in \in ExportInputs :
            (ExportCompiled(in) /\ ~in.throws /\ ~in.compiles
               /\ activeTextEditor # None)
            => /\ shown' = <<ParseFailedMessage(activeTextEditor)>>
               /\ exportPc' = "done" /\ written' = NoFile
       /\ (ExportCommand /\ exportPc' = "done"
             /\ activeTextEditor \in MjmlDocs)
          => /\ shown' = <<ParseFailedMessage(activeTextEditor)>>
             /\ written' = NoFile
       /\ (exportPc = "writing" /\ exportPc' # "writing")
          => /\ Len(shown') = 1
             /\ IF written' = NoFile
                THEN shown'[1] = "Something went wrong."
                ELSE shown'[1] = <<"File saved as ", job.fileName, ".html">>]_vars

\* An export ended with its file written and the success message shown.
C7_Witness ==
    /\ exportPc = "done"
    /\ written # NoFile
    /\ Len(shown) = 1

\* ---- C8
\* C8: previewOpen becomes true only in the preview command; while it is
\* false no open, activate, change, save or close event starts a render,
\* touches a panel or changes the tracked set; while it is true an open or
\* activate event renders only with autoPreview on, a change event only with
\* updateWhenTyping on, and a save event of a previewable document renders
\* whenever an editor is active.
C8_Gating ==
    [][/\ (~previewOpen /\ previewOpen') => PreviewCommand
       /\ \A d \in Docs, on \in BOOLEAN :
            /\ (~previewOpen /\ (\/ DidOpenTextDocument(d, on)
                                 \/ DidChangeActiveTextEditor(d, on)
                                 \/ DidChangeTextDocument(d, on)
                                 \/ DidSaveTextDocument(d)
                                 \/ DidCloseTextDocument(d, on))) => PanelFrame
            /\ (\/ DidOpenTextDocument(d, FALSE)
                \/ DidChangeActiveTextEditor(d, FALSE)
                \/ DidChangeTextDocument(d, FALSE)) => PanelFrame
            /\ (DidSaveTextDocument(d) /\ previewOpen /\ d \in MjmlDocs
                  /\ activeTextEditor # None)
               => Rendered(d, activeTextEditor)]_vars

\* With the preview open, a closed MJML document can be opened.
C8_Witness ==
    /\ previewOpen
    /\ activeTextEditor = "a"
    /\ ENABLED DidOpenTextDocument("b", FALSE)
    /\ ENABLED DidOpenTextDocument("b", TRUE)

\* ---- C9
\* C9: in every reachable state a panel exists only while previewOpen is
\* true (a disposed panel is not created again before the next command).
C9_PanelImpliesOpen == webview # Undefined => previewOpen

\* ---- C10
\* C10: when renders were suspended at once and all have resumed, the html
\* of the panel is the content that the render started last computed.
C10_LastEventWins ==
    (overlap /\ inflight = EmptyBag /\ webview # Undefined)
    => panels[webview].html = latest

\* ---- C11
\* C11: in every reachable state every file name in openedDocuments is the
\* name of a document that is open.
C11_TrackedAreOpen ==
    \A f \in Range(openedDocuments) : \E d \in textDocuments : fileName(d) = f

\* ---- C12
\* C12: whenever the panel exists, the file name in its title is the name of
\* the document whose render wrote its html.
C12_TitleNamesContent ==
    webview # Undefined => panels[webview].title = Label(panels[webview].of)

\* ---- C13
\* A name without its last extension: the text from the last dot on goes
\* when something follows that dot.
WithoutLastExtension(name) ==
    IF Len(name) > 1 /\ name[Len(name)] # ""
    THEN [i \in 1 .. Len(name) - 1 |-> name[i]]
    ELSE name

\* C13: the prompt opens with the active document's base name without its
\* last extension as the default; when the prompt resolves while an editor
\* is active, a write starts, also for a cancelled prompt, of the file
\* <dir>/<name>.html where <dir> is the directory of the active document and
\* <name> is the input without its last extension for a non-empty input and
\* the default otherwise; and that file is the one written.
C13_FileNaming ==
    [][/\ (exportPc' = "prompt" /\ exportPc # "prompt")
          => job'.defaultFileName =
                WithoutLastExtension(basename(fileName(activeTextEditor)))
       /\ \A input \in PromptInputs :
            (ExportPromptResolved(input) /\ activeTextEditor # None)
            => /\ exportPc' = "writing"
               /\ job'.file.dir = dirname(fileName(activeTextEditor))
               /\ job'.file.name =
                     (IF input \in {Cancelled, <<"">>}
                      THEN job.defaultFileName
                      ELSE WithoutLastExtension(input)) \o <<"html">>
       /\ (written' # NoFile /\ written' # written)
          => written'.file = job.file]_vars

\* A file named by an input with two extensions has been written.
C13_Witness ==
    /\ written # NoFile
    /\ written.file.name = <<"a", "b", "html">>

\* ---- C14
\* The document whose text an exported content was compiled from.
CompiledFrom(content) == content.mjml.src.textOf

\* C14: the default name of the prompt is derived from the document whose
\* text was compiled, and a written file lies in that document's directory.
C14_WritesBesideSource ==
    /\ exportPc = "prompt"
       => job.defaultFileName =
             WithoutLastExtension(basename(fileName(CompiledFrom(job.content))))
    /\ written # NoFile
       => written.file.dir = dirname(fileName(CompiledFrom(written.content)))

\* ---- C15
\* The values an optional boolean argument can take.
OptionalBool == {Omitted, {TRUE}, {FALSE}}

\* The content is compiled HTML, not a placeholder.
IsCompiled(c) == "links" \in DOMAIN c

\* C15: every content the preview pipeline (and the legacy provider) returns
\* is a placeholder or has its links rewritten and was compiled with minify
\* and beautify off; Helper.renderMJML rewrites the links exactly for a
\* fixLinks argument that is true and compiles with its minify and beautify
\* arguments, or with the settings where they are omitted; the content the
\* export prompts for and writes has its links not rewritten and was
\* compiled with the minifyHtmlOutput and beautifyHtmlOutput settings.
C15_PostProcessing ==
    /\ [](/\ \A d \in MjmlDocs, e \in Docs, in \in PipelineInputs :
               LET c == getContent(Render(d, e), in).content
               IN  IsCompiled(c) =>
                      /\ c.links = dirname(fileName(d))
                      /\ ~c.minify /\ ~c.beautify
          /\ \A d \in MjmlDocs, in \in PipelineInputs :
               LET c == PreviewContentProvider_renderMJML(d, in)
               IN  IsCompiled(c) =>
                      /\ c.links = dirname(fileName(activeTextEditor))
                      /\ ~c.minify /\ ~c.beautify
          /\ activeTextEditor \in MjmlDocs =>
               \A fx \in OptionalBool, mn \in OptionalBool, bt \in OptionalBool,
                  in \in {i \in ExportInputs : ~i.throws} :
                  LET c == renderedContent(getText(activeTextEditor),
                                           activeTextEditor, fx, mn, bt, in)
                  IN  HasContent(c) =>
                         /\ (c.links # "relative") <=> (fx = {TRUE})
                         /\ c.minify = (IF mn = Omitted THEN in.minifyHtmlOutput
                                        ELSE mn = {TRUE})
                         /\ c.beautify = (IF bt = Omitted
                                          THEN in.beautifyHtmlOutput
                                          ELSE bt = {TRUE})
          /\ written # NoFile => written.content.links = "relative")
    /\ [][\A in \in ExportInputs :
            (ExportCompiled(in) /\ exportPc' = "prompt")
            => /\ job'.content.links = "relative"
               /\ job'.content.minify = in.minifyHtmlOutput
               /\ job'.content.beautify = in.beautifyHtmlOutput]_vars

\* A file compiled with minifyHtmlOutput on and beautifyHtmlOutput off has
\* been written.
C15_Witness ==
    /\ written # NoFile
    /\ written.content.minify
    /\ ~written.content.beautify

\* ---- C16
\* The text is one well-formed attribute: a prefix, an opening quote, a
\* target without quotes, parentheses, line ends or prefixes in it, and the
\* same quote closing it.
OneAttribute(text) ==
    /\ Len(text) >= 4
    /\ IsPrefix(text[1])
    /\ IsQuote(text[2])
    /\ text[Len(text)] = text[2]
    /\ \A i \in 3 .. Len(text) - 1 :
          ~IsPrefix(text[i]) /\ ~IsClose(text[i]) /\ Dot(text[i])

\* Where the target of that attribute starts: behind its opening quote.
TargetStart(text) == 3

\* C16 (absolute targets): a text that is one quoted src=, href= or url(
\* attribute whose target begins with http, a backslash or # comes back from
\* Helper.fixLinks unchanged.
C16_AbsoluteTargetsKept ==
    (/\ links.applied
     /\ OneAttribute(links.text)
     /\ Refused(links.text[TargetStart(links.text)]))
    => links.replaced = links.text

\* ---- C17
\* The views made for the document URI u.
ViewsOf(u) ==
    {id \in DOMAIN fileMap : createDocumentUri(fileMap[id].document.doc) = u}

\* C17: every id in the IDMap is a key of fileMap; there is exactly one view
\* for each URI the command was invoked on, and as many views as such URIs;
\* and the command invoked on a URI it was invoked on before adds no view,
\* no content provider registration and no event subscription.
C17_OneViewPerUri ==
    /\ [](/\ \A i \in 1 .. Len(IDMap) : IDMap[i].id \in DOMAIN fileMap
          /\ \A u \in invoked : Cardinality(ViewsOf(u)) = 1
          /\ Cardinality(DOMAIN fileMap) = Cardinality(invoked))
    /\ [][(/\ previewCommand
           /\ activeTextEditor # None
           /\ createDocumentUri(activeTextEditor) \in invoked)
          => UNCHANGED <<IDMap, fileMap, registrations, subscriptions>>]_vars

\* Two documents have a view, and the active one, which has one, has been
\* closed and opened again since.
C17_Witness ==
    /\ Cardinality(DOMAIN fileMap) = 2
    /\ activeTextEditor # None
    /\ createDocumentUri(activeTextEditor) \in invoked
    /\ generation[activeTextEditor] = 2

\* ---- C18
\* The views whose own document has the file name of the active editor's.
ViewsOfActive(active) ==
    {id \in DOMAIN fileMap :
        active # None /\ fileName(fileMap[id].document.doc) = fileName(active)}

\* C18 as stated: a view is refreshed only by an event about a previewable
\* document while the active editor shows a file of the view's name, and
\* never by an event about a document other than its own.
C18_Original ==
    [][\A d \in Docs, on \in BOOLEAN :
         (\/ LegacyDidSaveTextDocument(d)
          \/ LegacyDidChangeTextDocument(d, on)
          \/ LegacyDidChangeActiveTextEditor(d))
         => \A id \in fired' :
               /\ isMJMLFile(d)
               /\ id \in ViewsOfActive(activeTextEditor')
               /\ fileMap[id].document.doc = d]_vars

\* C18: a save event, and a change event with updateWhenTyping on, of a
\* previewable document refresh exactly the views whose document has the
\* file name of the active editor's document, whichever document the event
\* is about; a change event with updateWhenTyping off and an event about a
\* document that is not previewable refresh no view; an activation refreshes
\* only views whose own document is the newly active, previewable document;
\* no other step refreshes a view.
C18_Refresh ==
    [][/\ \A d \in Docs :
            /\ LegacyDidSaveTextDocument(d)
               => fired' = IF d \in MjmlDocs
                           THEN ViewsOfActive(activeTextEditor) ELSE {}
            /\ LegacyDidChangeTextDocument(d, TRUE)
               => fired' = IF d \in MjmlDocs
                           THEN ViewsOfActive(activeTextEditor) ELSE {}
            /\ (LegacyDidChangeTextDocument(d, FALSE) /\ d \in MjmlDocs)
               => fired' = {}
            /\ LegacyDidChangeActiveTextEditor(d)
               => \A id \in fired' :
                     /\ d \in MjmlDocs
                     /\ fileMap[id].document.doc = d
       /\ (\/ previewCommand
           \/ PreviewManager_dispose
           \/ \E d \in Docs : DocumentOpened(d) \/ DocumentClosed(d))
          => fired' = {}]_vars

\* With views for both MJML documents, one of them has just been refreshed
\* while the other document is open too.
C18_Witness ==
    /\ Cardinality(DOMAIN fileMap) = 2
    /\ Cardinality(fired) = 1
    /\ {"a", "b"} \subseteq textDocuments

====
